---- MODULE Spec2Model ----
(***************************************************************************)
(* The struct extractor of codegen/src/main.rs: one pass over the events   *)
(* of an XML registry, rebuilding every struct-category `type` element and *)
(* its members with a depth counter and a handful of flags.                *)
(*                                                                         *)
(* Strings are TLA+ strings; Option<T> is a sequence of length 0 or 1.     *)
(* A function that can panic returns [panic, val].                         *)
(***************************************************************************)
EXTENDS Integers, Sequences, FiniteSets, TLC

\* ------------------------------------------------------------------ bounds

\* Number of elements of the document (start-elements delivered in one run).
MaxElements == 4
\* Deepest element nesting of the document.
MaxDepth == 4
\* Device::memory_type_index: the memory types a physical device reports.
MaxMemoryTypes == 2
\* Descriptor pools built from the device, Device and DescriptorPool values
\* alive at one time per object, and threads that clone and drop them.
MaxPools == 2
MaxHandles == 3
MaxThreads == 2

\* ------------------------------------------------------------- variables

VARIABLES
    \* the event source (xml::reader::EventReader) and the loop variable
    stack,      \* open elements of the document, outermost first
    closed,     \* the root element has been closed
    elements,   \* start-elements delivered so far
    vocab,      \* the vocabulary the document is written in
    e,          \* the event the loop body last ran on
    \* locals of main
    structs,
    current_struct,
    struct_start_depth,
    parsing_struct_comment,
    current_member,
    member_start_depth,
    parsing_member_type,
    parsing_member_name,
    parsing_member_array_size,
    parsing_member_comment,
    depth,
    pc,         \* "loop" | "aborted" (panic) | "error" | "exhausted" (both reported)
    report,     \* what lines 322-323 print: <<>> or <<[structs, count]>>
    \* the document read so far, as the registry format describes it
    doc_structs,    \* one record per struct-category element, in document order
    doc_wf,         \* the content read so far follows the registry's struct grammar
    doc_has_name,   \* the innermost member element has a `name` sub-element
    \* a call of one of the program's functions on its own
    arg,        \* <<>> or <<argument of the call>>
    ret,        \* <<>> or <<what the call returned>>
    \* a Device, the DescriptorPools built with it and the threads that own them
    device_strong,  \* strong count of the Arc<Inner> of device.rs
    device_handles, \* Device values the threads hold (those inside pools excluded)
    pool_strong,    \* per pool, strong count of the Arc<Inner> of descriptor_pool.rs
    pool_handles,   \* per pool, DescriptorPool values the threads hold
    dropping,       \* per thread, how far it is in the drop of a last handle
    calls           \* the Vulkan calls made so far, in order

vars == <<stack, closed, elements, vocab, e, structs, current_struct, struct_start_depth,
          parsing_struct_comment, current_member, member_start_depth,
          parsing_member_type, parsing_member_name, parsing_member_array_size,
          parsing_member_comment, depth, pc, report,
          doc_structs, doc_wf, doc_has_name, arg, ret,
          device_strong, device_handles, pool_strong, pool_handles, dropping, calls>>

src_vars == <<stack, closed, elements, vocab, e>>
main_vars == <<structs, current_struct, struct_start_depth,
               parsing_struct_comment, current_member, member_start_depth,
               parsing_member_type, parsing_member_name,
               parsing_member_array_size, parsing_member_comment, depth>>
doc_vars == <<doc_structs, doc_wf, doc_has_name>>
call_vars == <<arg, ret>>
drop_vars == <<device_strong, device_handles, pool_strong, pool_handles, dropping, calls>>
\* everything of the struct parser and of the calls of its functions
parse_vars == <<src_vars, main_vars, pc, report, doc_vars, call_vars>>

\* ---------------------------------------------------------------- helpers

None == <<>>
Some(x) == <<x>>

starts_with(s, p) == Len(s) >= Len(p) /\ SubSeq(s, 1, Len(p)) = p

Digits == {"0", "1", "2", "3", "4", "5", "6", "7", "8", "9"}

Last(q) == q[Len(q)]

\* Mutant of push: the element overwrites the last one of a non-empty vector.
push_over_last(v, x) ==
    IF v = <<>> THEN <<x>> ELSE [v EXCEPT ![Len(v)] = x]

\* Mutant of push: the element is inserted at the front.
push_front(v, x) == <<x>> \o v

\* Vec::push: the element is appended at the end.
push(v, x) == Append(v, x)

\* ------------------------------------------------------------ convert_type

\* Mutant of convert_type: char is taken for an unsigned byte.
convert_type_CharAsU8(orig_type) ==
    CASE orig_type = "float"    -> [panic |-> FALSE, val |-> "f32"]
      [] orig_type = "int32_t"  -> [panic |-> FALSE, val |-> "i32"]
      [] orig_type = "uint32_t" -> [panic |-> FALSE, val |-> "u32"]
      [] orig_type = "char"     -> [panic |-> FALSE, val |-> "u8"]
      [] orig_type = "uint8_t"  -> [panic |-> FALSE, val |-> "u8"]
      [] orig_type = "void"     -> [panic |-> FALSE, val |-> "()"]
      [] OTHER ->
            IF Len(orig_type) < 4
            THEN [panic |-> TRUE, val |-> orig_type]
            ELSE IF SubSeq(orig_type, 1, 4) # "PFN_" /\ SubSeq(orig_type, 1, 2) # "Vk"
                 THEN [panic |-> TRUE, val |-> orig_type]
                 ELSE [panic |-> FALSE, val |-> orig_type]

\* Lines 13-28.
convert_type(orig_type) ==
    CASE orig_type = "float"    -> [panic |-> FALSE, val |-> "f32"]
      [] orig_type = "int32_t"  -> [panic |-> FALSE, val |-> "i32"]
      [] orig_type = "uint32_t" -> [panic |-> FALSE, val |-> "u32"]
      [] orig_type = "char"     -> [panic |-> FALSE, val |-> "i8"]
      [] orig_type = "uint8_t"  -> [panic |-> FALSE, val |-> "u8"]
      [] orig_type = "void"     -> [panic |-> FALSE, val |-> "()"]
      [] OTHER ->
            \* split_at(4) panics on a token shorter than four bytes
            IF Len(orig_type) < 4
            THEN [panic |-> TRUE, val |-> orig_type]
            ELSE IF SubSeq(orig_type, 1, 4) # "PFN_" /\ SubSeq(orig_type, 1, 2) # "Vk"
                 THEN [panic |-> TRUE, val |-> orig_type]
                 ELSE [panic |-> FALSE, val |-> orig_type]

\* ------------------------------------------------------------------ Member

EmptyMember ==
    [ty |-> "", name |-> "", is_ptr |-> FALSE, is_const |-> FALSE,
     is_struct |-> FALSE, optional |-> FALSE, noautovalidity |-> FALSE,
     externsync |-> FALSE, array_size |-> None, comment |-> None,
     values |-> None, len |-> None, altlen |-> None]

\* Mutant of MemberAttrib: an unrecognized attribute is skipped.
MemberAttrib_SkipsUnknown(acc, attrib) ==
    LET m == acc.val
        k == attrib[1]
        v == attrib[2]
    IN  CASE k = "values"         -> [acc EXCEPT !.val = [m EXCEPT !.values = Some(v)]]
          [] k = "optional"       -> [acc EXCEPT !.val = [m EXCEPT !.optional = m.optional \/ (v = "true")]]
          [] k = "len"            -> [acc EXCEPT !.val = [m EXCEPT !.len = Some(v)]]
          [] k = "noautovalidity" -> [acc EXCEPT !.val = [m EXCEPT !.noautovalidity = m.noautovalidity \/ (v = "true")]]
          [] k = "altlen"         -> [acc EXCEPT !.val = [m EXCEPT !.altlen = Some(v)]]
          [] k = "externsync"     -> [acc EXCEPT !.val = [m EXCEPT !.externsync = m.externsync \/ (v = "true")]]
          [] OTHER                -> acc

\* Mutant of MemberAttrib: a flag is set by any value but "false".
MemberAttrib_NotFalse(acc, attrib) ==
    LET m == acc.val
        k == attrib[1]
        v == attrib[2]
    IN  CASE k = "values"         -> [acc EXCEPT !.val = [m EXCEPT !.values = Some(v)]]
          [] k = "optional"       -> [acc EXCEPT !.val = [m EXCEPT !.optional = m.optional \/ (v # "false")]]
          [] k = "len"            -> [acc EXCEPT !.val = [m EXCEPT !.len = Some(v)]]
          [] k = "noautovalidity" -> [acc EXCEPT !.val = [m EXCEPT !.noautovalidity = m.noautovalidity \/ (v # "false")]]
          [] k = "altlen"         -> [acc EXCEPT !.val = [m EXCEPT !.altlen = Some(v)]]
          [] k = "externsync"     -> [acc EXCEPT !.val = [m EXCEPT !.externsync = m.externsync \/ (v # "false")]]
          [] OTHER                -> [acc EXCEPT !.panic = TRUE]

\* Mutant of MemberAttrib: altlen is stored in the len field.
MemberAttrib_AltlenIntoLen(acc, attrib) ==
    LET m == acc.val
        k == attrib[1]
        v == attrib[2]
    IN  CASE k = "values"         -> [acc EXCEPT !.val = [m EXCEPT !.values = Some(v)]]
          [] k = "optional"       -> [acc EXCEPT !.val = [m EXCEPT !.optional = m.optional \/ (v = "true")]]
          [] k = "len"            -> [acc EXCEPT !.val = [m EXCEPT !.len = Some(v)]]
          [] k = "noautovalidity" -> [acc EXCEPT !.val = [m EXCEPT !.noautovalidity = m.noautovalidity \/ (v = "true")]]
          [] k = "altlen"         -> [acc EXCEPT !.val = [m EXCEPT !.len = Some(v)]]
          [] k = "externsync"     -> [acc EXCEPT !.val = [m EXCEPT !.externsync = m.externsync \/ (v = "true")]]
          [] OTHER                -> [acc EXCEPT !.panic = TRUE]

\* One iteration of the loop of Member::new; an attribute is <<name, value>>.
MemberAttrib(acc, attrib) ==
    LET m == acc.val
        k == attrib[1]
        v == attrib[2]
    IN  CASE k = "values"         -> [acc EXCEPT !.val = [m EXCEPT !.values = Some(v)]]
          [] k = "optional"       -> [acc EXCEPT !.val = [m EXCEPT !.optional = m.optional \/ (v = "true")]]
          [] k = "len"            -> [acc EXCEPT !.val = [m EXCEPT !.len = Some(v)]]
          [] k = "noautovalidity" -> [acc EXCEPT !.val = [m EXCEPT !.noautovalidity = m.noautovalidity \/ (v = "true")]]
          [] k = "altlen"         -> [acc EXCEPT !.val = [m EXCEPT !.altlen = Some(v)]]
          [] k = "externsync"     -> [acc EXCEPT !.val = [m EXCEPT !.externsync = m.externsync \/ (v = "true")]]
          [] OTHER                -> [acc EXCEPT !.panic = TRUE]

RECURSIVE MemberAttribs(_, _, _)
MemberAttribs(attribs, i, acc) ==
    IF i > Len(attribs) \/ acc.panic
    THEN acc
    ELSE MemberAttribs(attribs, i + 1, MemberAttrib(acc, attribs[i]))

Member_new(attribs) ==
    MemberAttribs(attribs, 1, [panic |-> FALSE, val |-> EmptyMember])

\* Member::validate: TRUE when the assertion fails.
validate_panics(member) == ~(Len(member.name) > 0)

\* ------------------------------------------------------------------ Struct

\* Mutant of StructAttrib: structextends is recognized but not stored.
StructAttrib_DropsExtends(acc, attrib) ==
    LET k == attrib[1]
        v == attrib[2]
    IN  CASE k = "category"      -> acc
          [] k = "name"          -> [acc EXCEPT !.name = Some(v)]
          [] k = "returnedonly"  -> [acc EXCEPT !.returnedonly = acc.returnedonly \/ (v = "true")]
          [] k = "structextends" -> acc
          [] k = "comment"       -> [acc EXCEPT !.comment = v]
          [] OTHER               -> [acc EXCEPT !.panic = TRUE]

\* One iteration of the loop of Struct::new.
StructAttrib(acc, attrib) ==
    LET k == attrib[1]
        v == attrib[2]
    IN  CASE k = "category"      -> acc
          [] k = "name"          -> [acc EXCEPT !.name = Some(v)]
          [] k = "returnedonly"  -> [acc EXCEPT !.returnedonly = acc.returnedonly \/ (v = "true")]
          [] k = "structextends" -> [acc EXCEPT !.structextends = Some(v)]
          [] k = "comment"       -> [acc EXCEPT !.comment = v]
          [] OTHER               -> [acc EXCEPT !.panic = TRUE]

RECURSIVE StructAttribs(_, _, _)
StructAttribs(attribs, i, acc) ==
    IF i > Len(attribs) \/ acc.panic
    THEN acc
    ELSE StructAttribs(attribs, i + 1, StructAttrib(acc, attribs[i]))

StructAttribsOf(attribs) ==
    StructAttribs(attribs, 1,
        [panic |-> FALSE, name |-> None, returnedonly |-> FALSE,
         structextends |-> None, comment |-> ""])

\* Mutant of Struct_new: a missing name becomes the empty string.
Struct_new_DefaultName(attribs) ==
    LET a == StructAttribsOf(attribs)
    IN  [panic |-> a.panic,
         val   |-> [name |-> IF a.name = None THEN "" ELSE a.name[1],
                    returnedonly |-> a.returnedonly,
                    structextends |-> a.structextends,
                    comment |-> a.comment,
                    members |-> <<>>]]

Struct_new(attribs) ==
    LET a == StructAttribsOf(attribs)
    IN  [panic |-> a.panic \/ a.name = None,      \* name.expect(..)
         val   |-> [name |-> IF a.name = None THEN "" ELSE a.name[1],
                    returnedonly |-> a.returnedonly,
                    structextends |-> a.structextends,
                    comment |-> a.comment,
                    members |-> <<>>]]

\* ---------------------------------------------------------------- category

category(s) ==
    CASE s = "struct" -> "Struct"
      [] s = "union"  -> "Union"
      [] s = "enum"   -> "Enum"
      [] OTHER        -> "Other"

\* Lines 211-219: the category of a `type` start-element, "None" otherwise.
RECURSIVE CategoryScan(_, _, _)
CategoryScan(attributes, i, type_category) ==
    IF i > Len(attributes)
    THEN type_category
    ELSE CategoryScan(attributes, i + 1,
             IF attributes[i][1] = "category"
             THEN category(attributes[i][2])
             ELSE type_category)

type_category_of(name, attributes) ==
    IF name = "type" THEN CategoryScan(attributes, 1, "None") ELSE "None"

\* -------------------------------------------------------- parse_stray_text

\* Mutant of ArrayScanPanics: a closing bracket is accepted at any position.
RECURSIVE ArrayScanPanics_AnyBracket(_, _)
ArrayScanPanics_AnyBracket(s, i) ==
    IF i > Len(s)
    THEN FALSE
    ELSE LET c == SubSeq(s, i, i)
         IN  CASE c = "[" -> ArrayScanPanics_AnyBracket(s, i + 1)
               [] c = "]" -> ArrayScanPanics_AnyBracket(s, i + 1)
               [] OTHER   -> IF c \in Digits
                             THEN ArrayScanPanics_AnyBracket(s, i + 1) ELSE TRUE

\* The scan of lines 161-173 from character i (1-based) on: TRUE when an
\* assertion fails.  The digits it collects are dropped when it returns.
RECURSIVE ArrayScanPanics(_, _)
ArrayScanPanics(s, i) ==
    IF i > Len(s)
    THEN FALSE
    ELSE LET c == SubSeq(s, i, i)
         IN  CASE c = "[" -> ArrayScanPanics(s, i + 1)
               [] c = "]" -> IF i = Len(s) THEN ArrayScanPanics(s, i + 1) ELSE TRUE
               [] OTHER   -> IF c \in Digits THEN ArrayScanPanics(s, i + 1) ELSE TRUE

\* The digits the scan of lines 161-173 pushes into its local array_size.
RECURSIVE ArrayScanDigits(_, _)
ArrayScanDigits(s, i) ==
    IF i > Len(s)
    THEN ""
    ELSE LET c == SubSeq(s, i, i)
         IN  IF c \in Digits THEN c \o ArrayScanDigits(s, i + 1)
             ELSE ArrayScanDigits(s, i + 1)

\* Mutant of parse_stray_text: the digits of the general bracket scan are
\* stored into the member.
parse_stray_text_StoresScan(s, member) ==
    CASE s = "["   -> [panic |-> FALSE, val |-> member]
      [] s = "]"   -> [panic |-> FALSE, val |-> member]
      [] s = "[2]" -> [panic |-> FALSE, val |-> [member EXCEPT !.array_size = Some("2")]]
      [] s = "[4]" -> [panic |-> FALSE, val |-> [member EXCEPT !.array_size = Some("4")]]
      [] OTHER ->
            IF starts_with(s, "const")
            THEN [panic |-> FALSE, val |-> [member EXCEPT !.is_const = TRUE]]
            ELSE IF starts_with(s, "struct")
            THEN [panic |-> FALSE, val |-> [member EXCEPT !.is_struct = TRUE]]
            ELSE IF starts_with(s, "*")
            THEN [panic |-> FALSE, val |-> [member EXCEPT !.is_ptr = TRUE]]
            ELSE IF starts_with(s, "[")
            THEN IF ArrayScanPanics(s, 1)
                 THEN [panic |-> TRUE, val |-> member]
                 ELSE [panic |-> FALSE,
                       val |-> [member EXCEPT !.array_size = Some(ArrayScanDigits(s, 1))]]
            ELSE [panic |-> TRUE, val |-> member]

\* Mutant of parse_stray_text: a fragment of no recognized form is skipped.
parse_stray_text_SkipsUnknown(s, member) ==
    CASE s = "["   -> [panic |-> FALSE, val |-> member]
      [] s = "]"   -> [panic |-> FALSE, val |-> member]
      [] s = "[2]" -> [panic |-> FALSE, val |-> [member EXCEPT !.array_size = Some("2")]]
      [] s = "[4]" -> [panic |-> FALSE, val |-> [member EXCEPT !.array_size = Some("4")]]
      [] OTHER ->
            IF starts_with(s, "const")
            THEN [panic |-> FALSE, val |-> [member EXCEPT !.is_const = TRUE]]
            ELSE IF starts_with(s, "struct")
            THEN [panic |-> FALSE, val |-> [member EXCEPT !.is_struct = TRUE]]
            ELSE IF starts_with(s, "*")
            THEN [panic |-> FALSE, val |-> [member EXCEPT !.is_ptr = TRUE]]
            ELSE IF starts_with(s, "[")
            THEN [panic |-> ArrayScanPanics(s, 1), val |-> member]
            ELSE [panic |-> FALSE, val |-> member]

\* Mutant of parse_stray_text: "[4]" is not special-cased and falls into the
\* general bracket scan.
parse_stray_text_NoFour(s, member) ==
    CASE s = "["   -> [panic |-> FALSE, val |-> member]
      [] s = "]"   -> [panic |-> FALSE, val |-> member]
      [] s = "[2]" -> [panic |-> FALSE, val |-> [member EXCEPT !.array_size = Some("2")]]
      [] OTHER ->
            IF starts_with(s, "const")
            THEN [panic |-> FALSE, val |-> [member EXCEPT !.is_const = TRUE]]
            ELSE IF starts_with(s, "struct")
            THEN [panic |-> FALSE, val |-> [member EXCEPT !.is_struct = TRUE]]
            ELSE IF starts_with(s, "*")
            THEN [panic |-> FALSE, val |-> [member EXCEPT !.is_ptr = TRUE]]
            ELSE IF starts_with(s, "[")
            THEN [panic |-> ArrayScanPanics(s, 1), val |-> member]
            ELSE [panic |-> TRUE, val |-> member]

\* Mutant of parse_stray_text: the qualifier keywords are looked for anywhere
\* in the fragment (contains), not at its start.
parse_stray_text_Contains(s, member) ==
    LET contains(p) ==
            \E i \in 1..(Len(s) - Len(p) + 1) : SubSeq(s, i, i + Len(p) - 1) = p
    IN
    CASE s = "["   -> [panic |-> FALSE, val |-> member]
      [] s = "]"   -> [panic |-> FALSE, val |-> member]
      [] s = "[2]" -> [panic |-> FALSE, val |-> [member EXCEPT !.array_size = Some("2")]]
      [] s = "[4]" -> [panic |-> FALSE, val |-> [member EXCEPT !.array_size = Some("4")]]
      [] OTHER ->
            IF contains("const")
            THEN [panic |-> FALSE, val |-> [member EXCEPT !.is_const = TRUE]]
            ELSE IF contains("struct")
            THEN [panic |-> FALSE, val |-> [member EXCEPT !.is_struct = TRUE]]
            ELSE IF contains("*")
            THEN [panic |-> FALSE, val |-> [member EXCEPT !.is_ptr = TRUE]]
            ELSE IF starts_with(s, "[")
            THEN [panic |-> ArrayScanPanics(s, 1), val |-> member]
            ELSE [panic |-> TRUE, val |-> member]

parse_stray_text(s, member) ==
    CASE s = "["   -> [panic |-> FALSE, val |-> member]
      [] s = "]"   -> [panic |-> FALSE, val |-> member]
      [] s = "[2]" -> [panic |-> FALSE, val |-> [member EXCEPT !.array_size = Some("2")]]
      [] s = "[4]" -> [panic |-> FALSE, val |-> [member EXCEPT !.array_size = Some("4")]]
      [] OTHER ->
            IF starts_with(s, "const")
            THEN [panic |-> FALSE, val |-> [member EXCEPT !.is_const = TRUE]]
            ELSE IF starts_with(s, "struct")
            THEN [panic |-> FALSE, val |-> [member EXCEPT !.is_struct = TRUE]]
            ELSE IF starts_with(s, "*")
            THEN [panic |-> FALSE, val |-> [member EXCEPT !.is_ptr = TRUE]]
            ELSE IF starts_with(s, "[")
            THEN [panic |-> ArrayScanPanics(s, 1), val |-> member]
            ELSE [panic |-> TRUE, val |-> member]

\* ------------------------------------------------------------ the document

\* The document of a run is written in one of these vocabularies: the
\* start-elements and texts the event source can deliver.
Vocabularies == {"struct", "attribute", "qualifier", "array", "order"}

\* The vocabulary of members with a symbolic array size, `[<enum>SYM</enum>]`,
\* is explored on its own.
AllVocabularies == Vocabularies \cup {"symbolic"}

Plain == <<>>
StructA == << <<"category", "struct">>, <<"name", "VkA">> >>
StructB == << <<"name", "VkB">>, <<"category", "struct">>, <<"returnedonly", "true">>,
              <<"structextends", "VkA">>, <<"comment", "doc">> >>
StructC == << <<"category", "struct">>, <<"name", "VkC">>, <<"returnedonly", "True">> >>
StructNoName == << <<"category", "struct">> >>
StructAlias == << <<"category", "struct">>, <<"name", "VkA">>, <<"alias", "VkB">> >>
UnionU == << <<"category", "union">>, <<"name", "VkU">> >>

\* Attribute lists of the `member` start-elements.
MemberAttributes ==
    { Plain,
      << <<"optional", "true">>, <<"len", "count">> >>,
      << <<"optional", "false">>, <<"noautovalidity", "true">>, <<"values", "v">> >>,
      << <<"optional", "true,false">>, <<"externsync", "true">>, <<"altlen", "a">> >>,
      << <<"unknownAttr", "x">> >> }

StartEventsOf(v) ==
    CASE v = "struct" ->
            [name : {"type"},
             attributes : {StructA, StructB, StructNoName, UnionU}]
                \cup [name : {"member", "name", "comment", "registry"},
                      attributes : {Plain}]
      [] v = "attribute" ->
            [name : {"type"}, attributes : {StructC, StructAlias, UnionU}]
                \cup [name : {"member"}, attributes : MemberAttributes]
                \cup [name : {"name", "registry"}, attributes : {Plain}]
      [] v = "qualifier" ->
            [name : {"type"}, attributes : {StructA, Plain}]
                \cup [name : {"member", "name"}, attributes : {Plain}]
      [] v = "array" ->
            [name : {"type"}, attributes : {StructA}]
                \cup [name : {"member", "name", "enum"}, attributes : {Plain}]
      [] v = "symbolic" ->
            [name : {"type"}, attributes : {StructA}]
                \cup [name : {"member", "name", "enum"}, attributes : {Plain}]
      [] v = "order" ->
            [name : {"type"}, attributes : {StructA}]
                \cup [name : {"member"},
                      attributes : {Plain, << <<"optional", "true">>,
                                              <<"len", "count">> >>}]
                \cup [name : {"name"},
                      attributes : {Plain, << <<"unknownAttr", "x">> >>}]

StartEvents == UNION {StartEventsOf(v) : v \in AllVocabularies}

\* Text the document holds directly inside an element of the given name.
TextsOf(v, parent) ==
    CASE v = "struct" -> {"text"}
      [] v = "attribute" -> {"count"}
      [] v = "qualifier" ->
            (CASE parent = "member"  -> {"const ", "*"}
               [] parent = "type"    -> {"int32_t", "char"}
               [] OTHER              -> {"count"})
      [] v = "array" ->
            (CASE parent = "member"  -> {"[2]", "[4]", "[3]", "?"}
               [] parent = "enum"    -> {"SYM"}
               [] OTHER              -> {"count"})
      [] v = "order" -> {"count"}
      [] v = "symbolic" ->
            (CASE parent = "member"  -> {"[", "]"}
               [] parent = "enum"    -> {"SYM"}
               [] OTHER              -> {"count"})

Texts == UNION {TextsOf(v, p) : v \in AllVocabularies,
                                p \in {"type", "member", "name", "enum", "comment"}}

NoEvent == [kind |-> "None", name |-> "", attributes |-> <<>>, s |-> ""]
StartEvent(name, attributes) ==
    [kind |-> "StartElement", name |-> name, attributes |-> attributes, s |-> ""]
EndEvent(name) ==
    [kind |-> "EndElement", name |-> name, attributes |-> <<>>, s |-> ""]
TextEvent(s) ==
    [kind |-> "Characters", name |-> "", attributes |-> <<>>, s |-> s]
ErrEvent == [kind |-> "Err", name |-> "", attributes |-> <<>>, s |-> ""]
OtherEvent == [kind |-> "Other", name |-> "", attributes |-> <<>>, s |-> ""]

Top == stack[Len(stack)]

HasAttr(attributes, k, v) ==
    \E i \in 1..Len(attributes) : attributes[i] = <<k, v>>
HasAttrName(attributes, k) ==
    \E i \in 1..Len(attributes) : attributes[i][1] = k
AttrValue(attributes, k) ==
    IF HasAttrName(attributes, k)
    THEN Some(attributes[CHOOSE i \in 1..Len(attributes) : attributes[i][1] = k][2])
    ELSE None

\* A struct-category element: a `type` element whose category is "struct".
IsStructElement(name, attributes) ==
    name = "type" /\ HasAttr(attributes, "category", "struct")

\* Some open element is a struct-category element.
InStructElement == \E i \in 1..Len(stack) : stack[i].sid > 0

\* What the document says about a struct-category element when it opens.
DocStruct(attributes) ==
    [name |-> AttrValue(attributes, "name"),
     returnedonly |-> HasAttr(attributes, "returnedonly", "true"),
     structextends |-> AttrValue(attributes, "structextends"),
     comment |-> IF HasAttrName(attributes, "comment")
                 THEN AttrValue(attributes, "comment")[1] ELSE "",
     members |-> 0]

\* Outside its struct-category elements the document is a registry of types:
\* the root is a `registry` or a struct-category `type`, a registry holds
\* `type` elements with a category, and any other type holds `member`
\* elements.  Inside a struct-category element the source delivers any
\* start-element of the vocabulary.
SourceStarts(name, attributes) ==
    /\ [name |-> name, attributes |-> attributes] \in StartEventsOf(vocab)
    /\ InStructElement
        \/ IF stack = <<>>
           THEN name = "registry" \/ IsStructElement(name, attributes)
           ELSE \/ Top.name = "registry" /\ name = "type"
                     /\ HasAttrName(attributes, "category")
                \/ Top.name = "type" /\ name = "member"

\* The struct grammar of the registry: a struct-category element holds
\* `member` and `comment` elements, a member holds text and `type`, `name`,
\* `enum`, `comment` elements, and each of those holds one text.
StartAllowed(name, attributes) ==
    InStructElement =>
        /\ ~IsStructElement(name, attributes)
        /\ \/ Top.sid > 0 /\ name \in {"member", "comment"}
           \/ Top.sid = 0 /\ Top.name = "member"
                  /\ name \in {"type", "name", "enum", "comment"}

TextAllowed ==
    InStructElement => Top.sid = 0 /\ (Top.name = "member" \/ ~Top.txt)

\* The number of start-elements a document of the vocabulary may hold: the
\* small alphabet of "order" leaves room for a struct of two named members.
ElementBound(v) == IF v = "order" THEN MaxElements + 1 ELSE MaxElements

\* -------------------------------------------------------------------- Init

Pools == 1..MaxPools
Threads == 1..MaxThreads

\* A thread that is not in the middle of dropping a last handle.
Idle == [at |-> "idle", pool |-> 0]

\* DeviceBuilder::build has returned: one Device value, whose Arc<Inner> has
\* strong count 1; no DescriptorPool has been built.
DeviceInit ==
    /\ device_strong = 1
    /\ device_handles = 1
    /\ pool_strong = [p \in Pools |-> 0]
    /\ pool_handles = [p \in Pools |-> 0]
    /\ dropping = [t \in Threads |-> Idle]
    /\ calls = <<>>


\* Lines 189-206: nothing of the document is read, main's locals hold their
\* initial values.
MainInit ==
    /\ stack = <<>>
    /\ closed = FALSE
    /\ elements = 0
    /\ e = NoEvent
    /\ structs = <<>>
    /\ current_struct = None
    /\ struct_start_depth = 0
    /\ parsing_struct_comment = FALSE
    /\ current_member = None
    /\ member_start_depth = 0
    /\ parsing_member_type = FALSE
    /\ parsing_member_name = FALSE
    /\ parsing_member_array_size = FALSE
    /\ parsing_member_comment = FALSE
    /\ depth = 0
    /\ pc = "loop"
    /\ report = None
    /\ doc_structs = <<>>
    /\ doc_wf = TRUE
    /\ doc_has_name = FALSE

Init ==
    /\ vocab \in Vocabularies
    /\ MainInit
    /\ DeviceInit
    /\ arg = None /\ ret = None

\* ----------------------------------------------------------------- actions

\* A panic (panic!, assert!, expect) while the loop body runs on event ev:
\* the process unwinds and main never reaches its report.
Abort(ev) ==
    /\ pc' = "aborted"
    /\ e' = ev
    /\ UNCHANGED <<stack, closed, elements, vocab, call_vars, drop_vars, main_vars, report, doc_vars>>

\* Mutant of DepthAtDispatch: the counter is incremented before the
\* start-element is dispatched.
DepthAtDispatch_AfterIncrement == depth + 1

\* Lines 222 and 230: the depth a start-element records is the counter
\* before the increment of line 259.
DepthAtDispatch == depth

\* Mutant of StartPanics: the match on the tag has no arm for unknown tags.
StartPanics_NoUnknownArm(name, attributes) ==
    LET tc == type_category_of(name, attributes)
        open == tc = "Struct" \/ current_struct # None
    IN  \/ tc = "Struct" /\ Struct_new(attributes).panic
        \/ open /\ name = "member"
                /\ (current_member # None \/ Member_new(attributes).panic)

\* Mutant of StartPanics: a `member` start-element is not asserted to find
\* no member open.
StartPanics_NoReentryAssert(name, attributes) ==
    LET tc == type_category_of(name, attributes)
        open == tc = "Struct" \/ current_struct # None
    IN  \/ tc = "Struct" /\ Struct_new(attributes).panic
        \/ open /\ name = "member" /\ Member_new(attributes).panic
        \/ open /\ name \notin {"member", "type", "name", "enum", "comment"}

\* Mutant of StartPanics: a struct-category start-element is asserted to
\* find no struct open.
StartPanics_RejectsNestedStruct(name, attributes) ==
    LET tc == type_category_of(name, attributes)
        open == tc = "Struct" \/ current_struct # None
    IN  \/ tc = "Struct" /\ (current_struct # None \/ Struct_new(attributes).panic)
        \/ open /\ name = "member"
                /\ (current_member # None \/ Member_new(attributes).panic)
        \/ open /\ name \notin {"member", "type", "name", "enum", "comment"}

\* Lines 210-260, TRUE when the start-element makes the loop body panic.
StartPanics(name, attributes) ==
    LET tc == type_category_of(name, attributes)
        open == tc = "Struct" \/ current_struct # None
    IN  \/ tc = "Struct" /\ Struct_new(attributes).panic
        \/ open /\ name = "member"
                /\ (current_member # None \/ Member_new(attributes).panic)
        \/ open /\ name \notin {"member", "type", "name", "enum", "comment"}

\* Lines 210-260: the loop body on Ok(XmlEvent::StartElement).
StartElement(name, attributes) ==
    LET tc == type_category_of(name, attributes)
        open == tc = "Struct" \/ current_struct # None
        isStruct == IsStructElement(name, attributes)
    IN
    /\ pc = "loop" /\ elements < ElementBound(vocab)
    /\ ~closed /\ Len(stack) < MaxDepth
    /\ SourceStarts(name, attributes)
    /\ IF StartPanics(name, attributes)
       THEN Abort(StartEvent(name, attributes))
       ELSE
        /\ current_struct' =
              IF tc = "Struct" THEN Some(Struct_new(attributes).val) ELSE current_struct
        /\ struct_start_depth' =
              IF tc = "Struct" THEN DepthAtDispatch ELSE struct_start_depth
        /\ current_member' =
              IF open /\ name = "member"
              THEN Some(Member_new(attributes).val) ELSE current_member
        /\ member_start_depth' =
              IF open /\ name = "member" THEN DepthAtDispatch ELSE member_start_depth
        /\ parsing_member_type' = (parsing_member_type \/ (open /\ name = "type"))
        /\ parsing_member_name' = (parsing_member_name \/ (open /\ name = "name"))
        /\ parsing_member_array_size' =
              (parsing_member_array_size \/ (open /\ name = "enum"))
        /\ parsing_member_comment' =
              (parsing_member_comment
                  \/ (open /\ name = "comment" /\ current_member # None))
        /\ parsing_struct_comment' =
              (parsing_struct_comment
                  \/ (open /\ name = "comment" /\ current_member = None))
        /\ depth' = depth + 1
        /\ UNCHANGED <<structs, pc, report, closed, vocab, call_vars, drop_vars>>
        /\ e' = StartEvent(name, attributes)
        /\ elements' = elements + 1
        /\ stack' = Append(stack,
              [name |-> name,
               sid |-> IF isStruct THEN Len(doc_structs) + 1 ELSE 0,
               txt |-> FALSE])
        /\ doc_structs' =
              IF isStruct
              THEN Append(doc_structs, DocStruct(attributes))
              ELSE IF name = "member" /\ stack # <<>> /\ Top.sid > 0
                   THEN [doc_structs EXCEPT ![Top.sid].members = @ + 1]
                   ELSE doc_structs
        /\ doc_wf' = (doc_wf /\ StartAllowed(name, attributes))
        /\ doc_has_name' =
              IF name = "member" THEN FALSE
              ELSE IF name = "name" /\ stack # <<>> /\ Top.name = "member" THEN TRUE
              ELSE doc_has_name

\* Lines 262-267: the end-element finalizes the open member: a `member` end
\* while a struct is open, at the post-decrement depth the member started at.
ClosesMember(name) ==
    /\ name = "member" /\ current_struct # None
    /\ depth - 1 = member_start_depth

\* Mutant of ClosesStruct: every `type` end-element seals the open struct,
\* whatever its depth.
ClosesStruct_AnyDepth(name) ==
    /\ ~(name = "member" /\ current_struct # None)
    /\ name = "type" /\ current_struct # None

\* Lines 262-274: the end-element seals the open struct: the `else if` arm
\* of the member test, a `type` end at the post-decrement depth the struct
\* started at.
ClosesStruct(name) ==
    /\ ~(name = "member" /\ current_struct # None)
    /\ name = "type" /\ current_struct # None
    /\ depth - 1 = struct_start_depth

\* Lines 261-281, TRUE when the end-element makes the loop body panic.
EndPanics(name) ==
    /\ ClosesMember(name)
    /\ (current_member = None \/ validate_panics(current_member[1]))

\* Lines 261-281: the loop body on Ok(XmlEvent::EndElement).
EndElement ==
    /\ pc = "loop"
    /\ stack # <<>>
    /\ LET name == Top.name
           closeMember == ClosesMember(name)
           closeStruct == ClosesStruct(name)
       IN IF EndPanics(name)
          THEN Abort(EndEvent(name))
          ELSE
           /\ depth' = depth - 1
           /\ current_member' = IF closeMember THEN None ELSE current_member
           /\ current_struct' =
                 IF closeMember
                 THEN Some([current_struct[1] EXCEPT
                               !.members = push(@, current_member[1])])
                 ELSE IF closeStruct THEN None ELSE current_struct
           /\ structs' = IF closeStruct THEN push(structs, current_struct[1])
                         ELSE structs
           /\ UNCHANGED <<struct_start_depth, member_start_depth,
                          parsing_struct_comment, parsing_member_type,
                          parsing_member_name, parsing_member_array_size,
                          parsing_member_comment, pc, report, vocab, call_vars, drop_vars, elements>>
           /\ e' = EndEvent(name)
           /\ stack' = SubSeq(stack, 1, Len(stack) - 1)
           /\ closed' = (Len(stack) = 1)
           /\ doc_has_name' = IF name = "member" THEN FALSE ELSE doc_has_name
           /\ UNCHANGED <<doc_structs, doc_wf>>

\* Lines 286-303: what a text does to the open member: [panic, val, armed
\* flags after it].
MemberText(s, cur_mem) ==
    LET flags == [ty |-> parsing_member_type, name |-> parsing_member_name,
                  array_size |-> parsing_member_array_size,
                  comment |-> parsing_member_comment]
    IN  IF ~(Len(s) > 0)
        THEN [panic |-> FALSE, val |-> cur_mem, flags |-> flags]
        ELSE IF parsing_member_type
        THEN [panic |-> FALSE, val |-> [cur_mem EXCEPT !.ty = s],
              flags |-> [flags EXCEPT !.ty = FALSE]]
        ELSE IF parsing_member_name
        THEN [panic |-> FALSE, val |-> [cur_mem EXCEPT !.name = s],
              flags |-> [flags EXCEPT !.name = FALSE]]
        ELSE IF parsing_member_array_size
        THEN [panic |-> FALSE, val |-> [cur_mem EXCEPT !.array_size = Some(s)],
              flags |-> [flags EXCEPT !.array_size = FALSE]]
        ELSE IF parsing_member_comment
        THEN [panic |-> FALSE, val |-> [cur_mem EXCEPT !.comment = Some(s)],
              flags |-> [flags EXCEPT !.comment = FALSE]]
        ELSE LET r == parse_stray_text(s, cur_mem)
             IN  [panic |-> r.panic, val |-> r.val, flags |-> flags]

\* Lines 282-310: the loop body on Ok(XmlEvent::Characters).
Characters(s) ==
    /\ pc = "loop"
    /\ stack # <<>>
    /\ s \in TextsOf(vocab, Top.name)
    /\ IF current_member # None /\ MemberText(s, current_member[1]).panic
       THEN Abort(TextEvent(s))
       ELSE
        /\ IF current_member # None
           THEN LET r == MemberText(s, current_member[1])
                IN  /\ current_member' = Some(r.val)
                    /\ parsing_member_type' = r.flags.ty
                    /\ parsing_member_name' = r.flags.name
                    /\ parsing_member_array_size' = r.flags.array_size
                    /\ parsing_member_comment' = r.flags.comment
                    /\ UNCHANGED <<current_struct, parsing_struct_comment>>
           ELSE IF current_struct # None /\ parsing_struct_comment /\ Len(s) > 0
           THEN /\ current_struct' = Some([current_struct[1] EXCEPT !.comment = s])
                /\ parsing_struct_comment' = FALSE
                /\ UNCHANGED <<current_member, parsing_member_type,
                               parsing_member_name, parsing_member_array_size,
                               parsing_member_comment>>
           ELSE UNCHANGED <<current_struct, parsing_struct_comment,
                            current_member, parsing_member_type,
                            parsing_member_name, parsing_member_array_size,
                            parsing_member_comment>>
        /\ UNCHANGED <<structs, struct_start_depth, member_start_depth, depth,
                       pc, report, closed, vocab, call_vars, drop_vars, elements>>
        /\ e' = TextEvent(s)
        /\ stack' = IF Top.name = "member" THEN stack
                    ELSE [stack EXCEPT ![Len(stack)].txt = TRUE]
        /\ doc_wf' = (doc_wf /\ TextAllowed)
        /\ doc_structs' =
              IF Top.name = "comment" /\ Len(stack) >= 2
                    /\ stack[Len(stack) - 1].sid > 0
              THEN [doc_structs EXCEPT ![stack[Len(stack) - 1].sid].comment = s]
              ELSE doc_structs
        /\ UNCHANGED doc_has_name

\* Line 318: every other event (whitespace, comment, CData, processing
\* instruction, StartDocument, EndDocument) is skipped.
Ignored ==
    /\ pc = "loop"
    /\ e # OtherEvent /\ stack = <<>>
    /\ e' = OtherEvent
    /\ UNCHANGED <<stack, closed, elements, vocab, call_vars, drop_vars, main_vars, pc, report, doc_vars>>

\* Mutant of Report: the struct under construction is reported too.
Report_WithOpenStruct ==
    LET all == structs \o current_struct
    IN  Some([structs |-> all, count |-> Len(all)])

\* Lines 322-323: the report printed after the loop.
Report == Some([structs |-> structs, count |-> Len(structs)])

\* Mutant of SourceError: the Err event is unwrapped, so the process
\* unwinds without a report.
SourceError_Aborts ==
    /\ pc = "loop"
    /\ pc' = "aborted"
    /\ e' = ErrEvent
    /\ UNCHANGED <<stack, closed, elements, vocab, call_vars, drop_vars, main_vars, report, doc_vars>>

\* Mutant of SourceError: the error is printed and the loop goes on with the
\* next event.
SourceError_Continues ==
    /\ pc = "loop"
    /\ e # ErrEvent
    /\ e' = ErrEvent
    /\ UNCHANGED <<stack, closed, elements, vocab, call_vars, drop_vars, main_vars, pc, report, doc_vars>>

\* Lines 314-317: the event source yields Err: print it, break, report.
SourceError ==
    /\ pc = "loop"
    /\ pc' = "error"
    /\ report' = Report
    /\ e' = ErrEvent
    /\ UNCHANGED <<stack, closed, elements, vocab, call_vars, drop_vars, main_vars, doc_vars>>

\* Line 208 and lines 322-323: the iterator ends after the root element is
\* closed; the loop exits and main reports.
EndOfStream ==
    /\ pc = "loop"
    /\ closed
    /\ pc' = "exhausted"
    /\ report' = Report
    /\ UNCHANGED <<stack, closed, elements, vocab, call_vars, drop_vars, e, main_vars, doc_vars>>

Next ==
    \/ \E ev \in StartEvents : StartElement(ev.name, ev.attributes)
    \/ EndElement
    \/ \E s \in Texts : Characters(s)
    \/ Ignored
    \/ SourceError
    \/ EndOfStream

Spec == Init /\ [][Next]_vars

\* ------------------------------------------------- finite event sequences

\* The event sequence of a run is finite: the source goes on delivering
\* events, closes every element it has opened, and ends after the root
\* element is closed.
FiniteSource ==
    /\ WF_vars(Next)
    /\ WF_vars(EndElement)
    /\ WF_vars(EndOfStream)

\* Termination is explored on the documents of two vocabularies.
InitFinite ==
    /\ vocab \in {"attribute", "symbolic"}
    /\ MainInit
    /\ DeviceInit
    /\ arg = None /\ ret = None

SpecFinite == InitFinite /\ [][Next]_vars /\ FiniteSource

\* ------------------------------------- documents with symbolic array sizes

InitSymbolic ==
    /\ vocab = "symbolic"
    /\ MainInit
    /\ DeviceInit
    /\ arg = None /\ ret = None

SpecSymbolic == InitSymbolic /\ [][Next]_vars

\* ------------------------------------------------- convert_type on its own

\* Type tokens: the table's six, and every prefix the function tests (whole,
\* cut short, in the wrong case) before a few endings.
TableTokens == {"float", "int32_t", "uint32_t", "char", "uint8_t", "void"}
TokenPrefixes == {"", "PFN_", "PFN", "P", "Vk", "V", "vk", "pfn_"}
TokenEndings == {"", "k", "x", "Foo", "_t", "oid", "Vk", "PFN_vkFn"}
Tokens == TableTokens \cup {p \o s : p \in TokenPrefixes, s \in TokenEndings}

InitConvert ==
    /\ vocab = "struct"
    /\ MainInit
    /\ DeviceInit
    /\ arg \in {Some(t) : t \in Tokens}
    /\ ret = None

\* A call convert_type(orig_type) with the chosen token.
Convert ==
    /\ arg # None /\ ret = None
    /\ ret' = Some(convert_type(arg[1]))
    /\ UNCHANGED <<src_vars, main_vars, pc, report, doc_vars, arg, drop_vars>>

NextConvert == Convert

SpecConvert == InitConvert /\ [][NextConvert]_vars

\* --------------------------------------------- parse_stray_text on its own

\* Text fragments: every beginning the function tests (and two it does not)
\* before endings with digits, brackets, a letter and a blank.
FragmentHeads == {"", "[", "]", "const", "struct", "*", "x", "c"}
FragmentTails == {"", "2]", "4]", "3]", "16]", "3][4]", "]3", "a]", " ", "[", "]",
                  " struct ", " const*", "const"}
Fragments == {h \o t : h \in FragmentHeads, t \in FragmentTails}

\* The member the fragment is classified for: a fresh one, and one whose
\* array_size and qualifier flags are already set.
StrayMembers ==
    { EmptyMember,
      [EmptyMember EXCEPT !.ty = "char", !.array_size = Some("8"),
                          !.is_const = TRUE, !.is_ptr = TRUE, !.is_struct = TRUE] }

InitStray ==
    /\ vocab = "struct"
    /\ MainInit
    /\ DeviceInit
    /\ arg \in {Some([s |-> f, member |-> m]) : f \in Fragments, m \in StrayMembers}
    /\ ret = None

\* A call parse_stray_text(s, current_member) with the chosen fragment and
\* member.
Stray ==
    /\ arg # None /\ ret = None
    /\ ret' = Some(parse_stray_text(arg[1].s, arg[1].member))
    /\ UNCHANGED <<src_vars, main_vars, pc, report, doc_vars, arg, drop_vars>>

NextStray == Stray

SpecStray == InitStray /\ [][NextStray]_vars

\* ---------------------------------- Device::memory_type_index on its own

\* a & b on unsigned integers.
RECURSIVE BitAnd(_, _)
BitAnd(a, b) ==
    IF a = 0 \/ b = 0
    THEN 0
    ELSE (a % 2) * (b % 2) + 2 * BitAnd(a \div 2, b \div 2)

\* 1 << i.
RECURSIVE Shl1(_)
Shl1(i) == IF i = 0 THEN 1 ELSE 2 * Shl1(i - 1)

\* Mutant of HasProperties: one requested property is enough.
HasProperties_Any(property_flags, properties) ==
    BitAnd(property_flags, properties) # 0

\* Line 134: (property_flags & properties) == properties.
HasProperties(property_flags, properties) ==
    BitAnd(property_flags, properties) = properties

\* Lines 132-140: the loop from index i on, then the panic.  memory_types is
\* indexed from 0 in the code, from 1 here.
RECURSIVE memory_type_search(_, _, _, _)
memory_type_search(mem_props, type_filter, properties, i) ==
    IF i >= mem_props.memory_type_count
    THEN [kind |-> "panic", val |-> 0]
    ELSE IF /\ BitAnd(type_filter, Shl1(i)) # 0
            /\ HasProperties(mem_props.memory_types[i + 1], properties)
         THEN [kind |-> "Ok", val |-> i]
         ELSE memory_type_search(mem_props, type_filter, properties, i + 1)

\* Lines 128-141.  query is what self.physical_device().memory_properties()
\* returned: <<>> for an Err, which `?` returns to the caller, or
\* <<mem_props>>.
memory_type_index(query, type_filter, properties) ==
    IF query = None
    THEN [kind |-> "Err", val |-> 0]
    ELSE memory_type_search(query[1], type_filter, properties, 0)

\* Property flag sets over two property bits, and type filters with one bit
\* more than the device can have memory types.
PropertyFlagSets == 0..3
TypeFilters == 0..(2 * Shl1(MaxMemoryTypes) - 1)

\* What the physical device reports: a count and the array of memory types
\* (the entries from the count on are not memory types of the device).
MemoryProperties ==
    [memory_type_count : 0..MaxMemoryTypes,
     memory_types : [1..MaxMemoryTypes -> PropertyFlagSets]]

InitMemoryType ==
    /\ vocab = "struct"
    /\ MainInit
    /\ DeviceInit
    /\ arg \in {Some(a) : a \in [query : {None} \cup {Some(p) : p \in MemoryProperties},
                                type_filter : TypeFilters,
                                properties : PropertyFlagSets]}
    /\ ret = None

\* A call device.memory_type_index(type_filter, properties).
MemoryTypeIndex ==
    /\ arg # None /\ ret = None
    /\ ret' = Some(memory_type_index(arg[1].query, arg[1].type_filter,
                                     arg[1].properties))
    /\ UNCHANGED <<src_vars, main_vars, pc, report, doc_vars, arg, drop_vars>>

NextMemoryType == MemoryTypeIndex

SpecMemoryType == InitMemoryType /\ [][NextMemoryType]_vars

\* ----------------------- clones and drops of a Device and its DescriptorPools

CreateDescriptorPool(p) == [fn |-> "vkCreateDescriptorPool", pool |-> p]
DestroyDescriptorPool(p) == [fn |-> "vkDestroyDescriptorPool", pool |-> p]
DestroyDevice == [fn |-> "destroy_device", pool |-> 0]

\* DescriptorPoolBuilder::build has been called for pool p.
Built(p) == \E i \in 1..Len(calls) : calls[i] = CreateDescriptorPool(p)

\* Arc::drop after its fetch_sub returned old: the thread that took the count
\* from 1 to 0 goes on to drop the Inner, every other thread is done.
AfterDecrement(old, last) == IF old = 1 THEN last ELSE Idle

\* Mutant of PoolInnerDropCalls: dropping the Inner makes no Vulkan call.
PoolInnerDropCalls_None(p) == <<>>

\* Drop for Inner of descriptor_pool.rs.
PoolInnerDropCalls(p) == <<DestroyDescriptorPool(p)>>

\* Drop for Inner of device.rs.
DeviceInnerDropCalls == <<DestroyDevice>>

InitDrop ==
    /\ vocab = "struct"
    /\ MainInit
    /\ DeviceInit
    /\ arg = None /\ ret = None

\* Thread t clones a Device value: Arc::clone increments the strong count.
CloneDevice(t) ==
    /\ dropping[t] = Idle
    /\ device_handles >= 1 /\ device_strong < MaxHandles
    /\ device_strong' = device_strong + 1
    /\ device_handles' = device_handles + 1
    /\ UNCHANGED <<pool_strong, pool_handles, dropping, calls,
                   parse_vars>>

\* Thread t calls DescriptorPoolBuilder::build(device): the Device value is
\* moved into the new Inner, whose Arc starts with strong count 1.
Build(t) ==
    /\ dropping[t] = Idle
    /\ device_handles >= 1
    /\ \E p \in Pools :
          /\ ~Built(p) /\ \A q \in Pools : q < p => Built(q)
          /\ calls' = Append(calls, CreateDescriptorPool(p))
          /\ pool_strong' = [pool_strong EXCEPT ![p] = 1]
          /\ pool_handles' = [pool_handles EXCEPT ![p] = 1]
    /\ device_handles' = device_handles - 1
    /\ UNCHANGED <<device_strong, dropping,
                   parse_vars>>

\* Thread t clones a DescriptorPool value of pool p.
ClonePool(t, p) ==
    /\ dropping[t] = Idle
    /\ pool_handles[p] >= 1 /\ pool_strong[p] < MaxHandles
    /\ pool_strong' = [pool_strong EXCEPT ![p] = @ + 1]
    /\ pool_handles' = [pool_handles EXCEPT ![p] = @ + 1]
    /\ UNCHANGED <<device_strong, device_handles, dropping, calls,
                   parse_vars>>

\* Thread t drops a DescriptorPool value of pool p: Arc::drop decrements the
\* strong count.
DropPool(t, p) ==
    /\ dropping[t] = Idle
    /\ pool_handles[p] >= 1
    /\ pool_handles' = [pool_handles EXCEPT ![p] = @ - 1]
    /\ pool_strong' = [pool_strong EXCEPT ![p] = @ - 1]
    /\ dropping' = [dropping EXCEPT
                       ![t] = AfterDecrement(pool_strong[p],
                                             [at |-> "pool_inner_drop", pool |-> p])]
    /\ UNCHANGED <<device_strong, device_handles, calls,
                   parse_vars>>

\* The thread that dropped the last DescriptorPool value runs Drop for Inner.
PoolInnerDrop(t) ==
    /\ dropping[t].at = "pool_inner_drop"
    /\ calls' = calls \o PoolInnerDropCalls(dropping[t].pool)
    /\ dropping' = [dropping EXCEPT ![t].at = "pool_field_drop"]
    /\ UNCHANGED <<device_strong, device_handles, pool_strong, pool_handles,
                   parse_vars>>

\* After Drop::drop the fields of the Inner are dropped: its Device value.
PoolFieldDrop(t) ==
    /\ dropping[t].at = "pool_field_drop"
    /\ device_strong' = device_strong - 1
    /\ dropping' = [dropping EXCEPT
                       ![t] = AfterDecrement(device_strong,
                                             [at |-> "device_inner_drop", pool |-> 0])]
    /\ UNCHANGED <<device_handles, pool_strong, pool_handles, calls,
                   parse_vars>>

\* Thread t drops a Device value it holds.
DropDevice(t) ==
    /\ dropping[t] = Idle
    /\ device_handles >= 1
    /\ device_handles' = device_handles - 1
    /\ device_strong' = device_strong - 1
    /\ dropping' = [dropping EXCEPT
                       ![t] = AfterDecrement(device_strong,
                                             [at |-> "device_inner_drop", pool |-> 0])]
    /\ UNCHANGED <<pool_strong, pool_handles, calls,
                   parse_vars>>

\* The thread that dropped the last Device value runs Drop for Inner.
DeviceInnerDrop(t) ==
    /\ dropping[t].at = "device_inner_drop"
    /\ calls' = calls \o DeviceInnerDropCalls
    /\ dropping' = [dropping EXCEPT ![t] = Idle]
    /\ UNCHANGED <<device_strong, device_handles, pool_strong, pool_handles,
                   parse_vars>>

NextDrop ==
    \E t \in Threads :
          \/ CloneDevice(t)
          \/ Build(t)
          \/ \E p \in Pools : ClonePool(t, p)
          \/ \E p \in Pools : DropPool(t, p)
          \/ PoolInnerDrop(t)
          \/ PoolFieldDrop(t)
          \/ DropDevice(t)
          \/ DeviceInnerDrop(t)

SpecDrop == InitDrop /\ [][NextDrop]_vars

\* ------------------------------------------------------------------ claims

MemberAttributeNames ==
    {"values", "optional", "len", "noautovalidity", "altlen", "externsync"}
StructAttributeNames ==
    {"category", "name", "returnedonly", "structextends", "comment"}

HasAttrOutside(attributes, names) ==
    \E i \in 1..Len(attributes) : attributes[i][1] \notin names

\* The step is the loop body running on a start-element / a text.
IsStartStep == pc = "loop" /\ e'.kind = "StartElement"
IsTextStep == pc = "loop" /\ e'.kind = "Characters"
\* The step is the loop body running on the end-element of the innermost
\* open element.
IsEndStep == pc = "loop" /\ stack # <<>> /\ e'.kind = "EndElement"

\* C1: once the stream of a well-formed document is exhausted, structs holds
\* exactly one Struct per struct-category element, in document order, with
\* that element's name, returnedonly, structextends and comment.
C1_StructsMatchDocument ==
    (pc = "exhausted" /\ doc_wf) =>
        /\ Len(structs) = Len(doc_structs)
        /\ \A i \in 1..Len(structs) :
              /\ Some(structs[i].name) = doc_structs[i].name
              /\ structs[i].returnedonly = doc_structs[i].returnedonly
              /\ structs[i].structextends = doc_structs[i].structextends
              /\ structs[i].comment = doc_structs[i].comment

C1_Witness ==
    /\ pc = "exhausted" /\ doc_wf
    /\ Len(structs) = 2
    /\ structs[1].name = "VkA" /\ structs[1].comment = "text"
    /\ structs[2].name = "VkB" /\ structs[2].returnedonly
    /\ structs[2].structextends = Some("VkA") /\ structs[2].comment = "doc"

\* C2: when a Struct is appended to the output, the length of its members
\* equals the number of `member` elements that are direct children of the
\* struct-category element that is being closed.
C2_MembersAreDirectChildren ==
    [][(IsEndStep /\ Len(structs') = Len(structs) + 1) =>
          /\ Top.sid > 0
          /\ Len(structs'[Len(structs')].members) = doc_structs[Top.sid].members]_vars

\* C3: after a text inside the `type` sub-element of an open member, the
\* member's type is the Type Normalizer's result for that text.
C3_TypeTextIsNormalized ==
    (/\ pc = "loop" /\ e.kind = "Characters" /\ current_member # None
     /\ Len(stack) >= 2 /\ Top.name = "type"
     /\ stack[Len(stack) - 1].name = "member") =>
        current_member[1].ty = convert_type(e.s).val

\* C4: after a stray text `const` (`*`) directly inside a member element,
\* whatever the member's position in its struct, the open member has
\* is_const (is_ptr) set.
C4_StrayQualifiersSetFlags ==
    (/\ pc = "loop" /\ e.kind = "Characters" /\ current_member # None
     /\ stack # <<>> /\ Top.name = "member") =>
        /\ e.s = "const " => current_member[1].is_const
        /\ e.s = "*" => current_member[1].is_ptr

\* C5: a text "[2]" ("[4]") that reaches the Token Classifier (a member is
\* open and no field is armed) sets the member's array_size to Some("2")
\* (Some("4")) and changes no other field.
C5_BracketLiteralSetsArraySize ==
    [][(/\ IsTextStep /\ pc' = "loop" /\ current_member # None
        /\ ~parsing_member_type /\ ~parsing_member_name
        /\ ~parsing_member_array_size /\ ~parsing_member_comment) =>
          /\ e'.s = "[2]" =>
                current_member' = Some([current_member[1] EXCEPT !.array_size = Some("2")])
          /\ e'.s = "[4]" =>
                current_member' = Some([current_member[1] EXCEPT !.array_size = Some("4")])]_vars

C5_Witness ==
    /\ pc = "loop" /\ e.kind = "Characters" /\ e.s = "[4]"
    /\ current_member # None
    /\ current_member[1].array_size = Some("4")
    /\ current_member[1].ty # "[4]"

\* C6: the end-element of a member that has no `name` sub-element, reached
\* while a struct is under construction, aborts the run.
C6_NamelessMemberAborts ==
    [][(/\ IsEndStep /\ Top.name = "member" /\ current_struct # None
        /\ ~doc_has_name) => pc' = "aborted"]_vars

\* C7: a struct-category start-element without a `name` attribute aborts the
\* run: no Struct becomes open, nothing is appended or reported, and no step
\* follows an abort.
C7_NamelessStructAborts ==
    [][/\ pc # "aborted"
       /\ (/\ IsStartStep
           /\ IsStructElement(e'.name, e'.attributes)
           /\ ~HasAttrName(e'.attributes, "name")) =>
              /\ pc' = "aborted"
              /\ current_struct' = current_struct
              /\ structs' = structs
              /\ report' = None]_vars

C7_Witness ==
    /\ pc = "aborted"
    /\ e = StartEvent("type", StructNoName)
    /\ Len(structs) = 1

\* C8 as stated: a `member` start-element with an attribute outside the
\* member vocabulary, or a struct-category start-element with an attribute
\* outside the struct vocabulary, aborts the run.
C8_UnknownAttributeAborts ==
    [][(/\ IsStartStep
        /\ \/ e'.name = "member"
                 /\ HasAttrOutside(e'.attributes, MemberAttributeNames)
           \/ IsStructElement(e'.name, e'.attributes)
                 /\ HasAttrOutside(e'.attributes, StructAttributeNames)) =>
          pc' = "aborted"]_vars

\* C8 amended: a `member` start-element that arrives while a struct is under
\* construction with an attribute outside the member vocabulary, or a
\* struct-category start-element with an attribute outside the struct
\* vocabulary, aborts the run, and no Member or Struct is created from it.
C8_UnknownAttributeAbortsInStruct ==
    [][(/\ IsStartStep
        /\ \/ e'.name = "member" /\ current_struct # None
                 /\ HasAttrOutside(e'.attributes, MemberAttributeNames)
           \/ IsStructElement(e'.name, e'.attributes)
                 /\ HasAttrOutside(e'.attributes, StructAttributeNames)) =>
          /\ pc' = "aborted"
          /\ current_member' = current_member
          /\ current_struct' = current_struct
          /\ structs' = structs]_vars

C8_Witness ==
    /\ pc = "aborted"
    /\ e.kind = "StartElement" /\ e.name = "member"
    /\ HasAttrName(e.attributes, "unknownAttr")
    /\ current_struct # None /\ current_member = None

BoolFlags(m) == <<m.optional, m.noautovalidity, m.externsync>>

\* C9: the Member a `member` start-element creates has optional,
\* noautovalidity and externsync true exactly when that attribute is present
\* with the value "true", and the Struct a struct-category start-element
\* creates has returnedonly likewise; no later step changes the flags of the
\* open member or struct, and finalizing appends them as they are.
C9_FlagsAreExactlyTrueAttributes ==
    [][/\ (IsStartStep /\ pc' = "loop" /\ e'.name = "member"
              /\ current_struct # None) =>
            /\ current_member' # None
            /\ BoolFlags(current_member'[1]) =
                  << HasAttr(e'.attributes, "optional", "true"),
                     HasAttr(e'.attributes, "noautovalidity", "true"),
                     HasAttr(e'.attributes, "externsync", "true") >>
       /\ (IsStartStep /\ pc' = "loop"
              /\ IsStructElement(e'.name, e'.attributes)) =>
            /\ current_struct' # None
            /\ current_struct'[1].returnedonly =
                  HasAttr(e'.attributes, "returnedonly", "true")
       /\ (current_member # None /\ current_member' # None
              /\ ~(IsStartStep /\ e'.name = "member")) =>
            BoolFlags(current_member'[1]) = BoolFlags(current_member[1])
       /\ (current_struct # None /\ current_struct' # None
              /\ ~(IsStartStep /\ IsStructElement(e'.name, e'.attributes))) =>
            current_struct'[1].returnedonly = current_struct[1].returnedonly
       /\ (current_member # None /\ current_member' = None) =>
            /\ current_struct' # None
            /\ BoolFlags(Last(current_struct'[1].members)) = BoolFlags(current_member[1])
       /\ (current_struct # None /\ current_struct' = None) =>
            Last(structs').returnedonly = current_struct[1].returnedonly]_vars

C9_Witness ==
    /\ pc = "loop"
    /\ current_struct # None
    /\ Len(current_struct[1].members) = 1
    /\ LET m == current_struct[1].members[1]
       IN  ~m.optional /\ m.externsync /\ m.altlen = Some("a")
    /\ ~current_struct[1].returnedonly /\ current_struct[1].name = "VkC"

\* C10: a source error ends the loop at once and the run reports exactly
\* the structs sealed before the error, in order, with their count; the
\* struct under construction is not in the report, and no step follows.
C10_SourceErrorReportsSealedStructs ==
    [][/\ pc = "loop"
       /\ e'.kind = "Err" =>
            /\ pc' = "error"
            /\ report' = Some([structs |-> structs, count |-> Len(structs)])
            /\ structs' = structs
            /\ current_struct' = current_struct
       /\ pc' = "error" => e'.kind = "Err"]_vars

C10_Witness ==
    /\ pc = "error"
    /\ report # None
    /\ report[1].count = 2
    /\ report[1].structs[1].name = "VkA" /\ report[1].structs[2].name = "VkB"
    /\ current_struct # None

\* C11 (as stated): every run either reports the structs of the whole
\* document or aborts without a report, so a report exists only after the
\* event source has delivered the whole document.
C11_ReportIsWholeDocument ==
    report # None => pc = "exhausted" /\ closed

\* C11 (amended): a run ends in one of three ways.  A panic leaves no report;
\* the end of the stream reports the structs of the whole document; an Err of
\* the event source reports the structs sealed before it, which may be a
\* proper part of the document's structs.  No report exists while the loop
\* runs.
C11_ThreeOutcomes ==
    /\ pc \in {"loop", "aborted", "error", "exhausted"}
    /\ pc \in {"loop", "aborted"} => report = None
    /\ pc = "exhausted" =>
          /\ closed /\ stack = <<>>
          /\ report = Some([structs |-> structs, count |-> Len(structs)])
    /\ pc = "error" =>
          /\ e = ErrEvent
          /\ report = Some([structs |-> structs, count |-> Len(structs)])
    /\ e = ErrEvent => pc = "error"

C11_Witness ==
    /\ pc = "error"
    /\ Len(doc_structs) = 2
    /\ report # None /\ report[1].count = 1
    /\ current_struct # None

\* The struct-category element whose start-element created the struct under
\* construction: the latest one the document opened.
OpenedCurrentStruct(el) == el.sid > 0 /\ el.sid = Len(doc_structs)

\* C12: the struct under construction is appended to the output at exactly
\* one event, the end-element of the `type` element that opened it, where the
\* post-decrement depth equals struct_start_depth.  No other step changes the
\* output, no other end-element (a member's nested `type` end included)
\* seals the struct, and the matching end-element always seals it.
C12_SealedAtMatchingEnd ==
    [][/\ structs' # structs =>
             /\ IsEndStep /\ Top.name = "type"
             /\ current_struct # None /\ OpenedCurrentStruct(Top)
             /\ depth' = struct_start_depth
             /\ structs' = Append(structs, current_struct[1])
             /\ current_struct' = None
       /\ (IsEndStep /\ current_struct # None /\ OpenedCurrentStruct(Top)) =>
             structs' = Append(structs, current_struct[1])
      ]_vars

C12_Witness ==
    /\ Len(structs) = 1
    /\ Len(structs[1].members) = 1
    /\ structs[1].members[1].ty = "int32_t"
    /\ e = EndEvent("type") /\ pc = "loop"

\* C13: the members of a struct are in the order of their `member` elements:
\* while a struct is under construction its member sequence changes only at
\* a member's end-element, which appends the finalized member at the end,
\* and sealing moves the sequence to the output as it is.
C13_MembersInDocumentOrder ==
    [][/\ (/\ current_struct # None /\ current_struct' # None
           /\ ~(IsStartStep /\ IsStructElement(e'.name, e'.attributes))) =>
             \/ current_struct'[1].members = current_struct[1].members
             \/ /\ IsEndStep /\ Top.name = "member" /\ current_member # None
                /\ current_struct'[1].members =
                      Append(current_struct[1].members, current_member[1])
       /\ structs' # structs =>
             Last(structs').members = current_struct[1].members
      ]_vars

C13_Witness ==
    /\ Len(structs) = 1
    /\ Len(structs[1].members) = 2
    /\ structs[1].members[1].len = Some("count")
    /\ structs[1].members[2].len = None

\* C14: convert_type maps the six table tokens to their Rust names; a token
\* outside the table that it returns is returned unchanged and begins with
\* "PFN_" or "Vk"; a token outside the table that begins with neither makes
\* the call panic.
C14_ConvertTypeTable ==
    ret # None =>
        LET orig_type == arg[1]
            r == ret[1]
        IN  /\ orig_type = "float"    => ~r.panic /\ r.val = "f32"
            /\ orig_type = "int32_t"  => ~r.panic /\ r.val = "i32"
            /\ orig_type = "uint32_t" => ~r.panic /\ r.val = "u32"
            /\ orig_type = "char"     => ~r.panic /\ r.val = "i8"
            /\ orig_type = "uint8_t"  => ~r.panic /\ r.val = "u8"
            /\ orig_type = "void"     => ~r.panic /\ r.val = "()"
            /\ (orig_type \notin TableTokens /\ ~r.panic) =>
                  /\ r.val = orig_type
                  /\ starts_with(orig_type, "PFN_") \/ starts_with(orig_type, "Vk")
            /\ (/\ orig_type \notin TableTokens
                /\ ~starts_with(orig_type, "PFN_")
                /\ ~starts_with(orig_type, "Vk")) => r.panic

C14_Witness ==
    /\ arg = Some("VkFoo")
    /\ ret = Some([panic |-> FALSE, val |-> "VkFoo"])

StringAttribs(m) == <<m.values, m.len, m.altlen>>

\* C15: the Member a `member` start-element creates has values, len and
\* altlen equal to the attributes of that name (None when absent); no later
\* step changes them while the member is open, and finalizing appends the
\* member with them as they are.
C15_StringAttributesAreCopied ==
    [][/\ (IsStartStep /\ pc' = "loop" /\ e'.name = "member"
              /\ current_struct # None) =>
            /\ current_member' # None
            /\ StringAttribs(current_member'[1]) =
                  << AttrValue(e'.attributes, "values"),
                     AttrValue(e'.attributes, "len"),
                     AttrValue(e'.attributes, "altlen") >>
       /\ (current_member # None /\ current_member' # None) =>
            StringAttribs(current_member'[1]) = StringAttribs(current_member[1])
       /\ (current_member # None /\ current_member' = None) =>
            /\ current_struct' # None
            /\ StringAttribs(Last(current_struct'[1].members)) =
                  StringAttribs(current_member[1])
      ]_vars

C15_Witness ==
    /\ Len(structs) = 1
    /\ Len(structs[1].members) = 1
    /\ StringAttribs(structs[1].members[1]) = <<None, Some("count"), None>>
    /\ structs[1].members[1].name = "count"

\* C16: while the run lasts the depth counter is the number of open elements,
\* so it is never negative; the start depth recorded for the struct under
\* construction is the number of open ancestors of the element that opened
\* it, which is the depth the counter returns to at that element's
\* end-element; and the start depth a `member` start-element records is the
\* number of its open ancestors.
C16_DepthCountsOpenElements ==
    pc # "aborted" =>
        /\ depth = Len(stack) /\ depth >= 0
        /\ current_struct # None =>
              /\ struct_start_depth < Len(stack)
              /\ OpenedCurrentStruct(stack[struct_start_depth + 1])
        /\ (e.kind = "StartElement" /\ e.name = "member"
               /\ current_struct # None) =>
              /\ current_member # None
              /\ member_start_depth = Len(stack) - 1

C16_Witness ==
    /\ pc = "loop" /\ depth = 3
    /\ current_struct # None /\ struct_start_depth = 1
    /\ e.kind = "StartElement" /\ e.name = "member"
    /\ current_member # None /\ member_start_depth = 2

\* The tags the start-element arm has a match arm for (lines 226-248).
KnownTags == {"member", "type", "name", "enum", "comment"}

\* C17: a start-element with a tag other than member, type, name, enum,
\* comment that arrives while a struct is under construction aborts the run,
\* at whatever depth inside the struct it arrives.
C17_UnknownTagAborts ==
    (/\ e.kind = "StartElement" /\ e.name \notin KnownTags
     /\ current_struct # None) => pc = "aborted"

C17_Witness ==
    /\ pc = "aborted"
    /\ e.kind = "StartElement" /\ e.name = "registry"
    /\ current_struct # None /\ current_member # None
    /\ depth = struct_start_depth + 3

\* The element the loop body last ran on has a struct-category ancestor.
InsideStructElement ==
    \E i \in 1..(Len(stack) - 1) : stack[i].sid > 0

\* C18: a start-element inside a struct-category element that carries an
\* attribute outside the recognized names (those of a member and those of a
\* struct) aborts the run, whatever the element is.
C18_UnknownAttributeAnywhereAborts ==
    (/\ e.kind = "StartElement"
     /\ HasAttrOutside(e.attributes, MemberAttributeNames \cup StructAttributeNames)
     /\ pc # "aborted" => InsideStructElement /\ current_struct # None)
        => pc = "aborted"

\* C19: a `member` start-element that arrives while a struct is under
\* construction and a member is already open aborts the run and leaves the
\* open member as it is; a member comes to be under construction only at a
\* `member` start-element that finds none open, and no start-element
\* replaces the open member.
C19_MemberReentryAborts ==
    [][/\ (IsStartStep /\ e'.name = "member"
              /\ current_struct # None /\ current_member # None) =>
            /\ pc' = "aborted"
            /\ current_member' = current_member
       /\ (IsStartStep /\ current_member # None) =>
            current_member' = current_member
       /\ (current_member = None /\ current_member' # None) =>
            IsStartStep /\ e'.name = "member"
      ]_vars

C19_Witness ==
    /\ pc = "aborted"
    /\ e = StartEvent("member", Plain)
    /\ current_struct # None /\ current_member # None
    /\ Top.name = "member"

\* C20: in every reachable state a member under construction has a struct
\* under construction around it.
C20_OpenMemberHasOpenStruct ==
    current_member # None => current_struct # None

\* One of the four armed flags of the member accumulator is set.
MemberFieldArmed ==
    \/ parsing_member_type \/ parsing_member_name
    \/ parsing_member_array_size \/ parsing_member_comment

\* C21: right after a `member` start-element is accepted (a struct is open,
\* the member is created) none of the type, name, array-size and comment
\* flags is armed, so that a text arriving next reaches the Token
\* Classifier.
C21_MemberStartsUnarmed ==
    (/\ pc = "loop" /\ e.kind = "StartElement" /\ e.name = "member"
     /\ current_struct # None /\ current_member # None) => ~MemberFieldArmed

\* The member with text s stored in the field that belongs to the
\* sub-element of the given tag (lines 289, 292, 295, 298).
StoredInFieldOf(tag, member, s) ==
    CASE tag = "type"    -> [member EXCEPT !.ty = s]
      [] tag = "name"    -> [member EXCEPT !.name = s]
      [] tag = "enum"    -> [member EXCEPT !.array_size = Some(s)]
      [] tag = "comment" -> [member EXCEPT !.comment = Some(s)]

\* C22: in an open member, a non-empty text that directly follows a `type`,
\* `name`, `enum` or `comment` start-element is stored into the field of
\* that element and changes no other field, and no flag is armed after it.
C22_ArmedTextGoesToItsField ==
    [][(/\ IsTextStep /\ Len(e'.s) > 0
        /\ e.kind = "StartElement"
        /\ e.name \in {"type", "name", "enum", "comment"}
        /\ current_member # None) =>
            /\ pc' = "loop"
            /\ current_member' = Some(StoredInFieldOf(e.name, current_member[1], e'.s))
            /\ ~MemberFieldArmed'
      ]_vars

\* The structs that hold finalized members: the sealed ones and the one
\* under construction.
StructsWithMembers == structs \o current_struct

\* C23: every member appended to a struct has a non-empty type name.
C23_AppendedMembersHaveType ==
    \A i \in 1..Len(StructsWithMembers) :
        \A j \in 1..Len(StructsWithMembers[i].members) :
            StructsWithMembers[i].members[j].ty # ""

\* C24: a fragment that is none of "[", "]", "[2]", "[4]" and begins with
\* none of "const", "struct", "*", "[" makes parse_stray_text panic, and the
\* member is as it was.
C24_UnknownFragmentAborts ==
    ret # None =>
        LET s == arg[1].s
        IN  (/\ s \notin {"[", "]", "[2]", "[4]"}
             /\ ~starts_with(s, "const") /\ ~starts_with(s, "struct")
             /\ ~starts_with(s, "*") /\ ~starts_with(s, "[")) =>
                /\ ret[1].panic
                /\ ret[1].val = arg[1].member

C24_Witness ==
    /\ arg # None /\ arg[1].s = "x3]"
    /\ ret # None /\ ret[1].panic

\* The fragment goes through the general bracket scan of lines 159-173.
IsScanned(s) == starts_with(s, "[") /\ s \notin {"[", "[2]", "[4]"}

\* The fragment holds a character that is neither a digit nor a bracket.
HasOtherCharacter(s) ==
    \E i \in 1..Len(s) : SubSeq(s, i, i) \notin Digits \cup {"[", "]"}

\* The fragment holds a closing bracket before its last character.
HasInnerClosingBracket(s) ==
    \E i \in 1..(Len(s) - 1) : SubSeq(s, i, i) = "]"

IsBracketedNumber(s) ==
    /\ Len(s) >= 3
    /\ SubSeq(s, 1, 1) = "[" /\ SubSeq(s, Len(s), Len(s)) = "]"
    /\ \A i \in 2..(Len(s) - 1) : SubSeq(s, i, i) \in Digits

\* C26: a number in brackets other than "[2]" and "[4]" is accepted and
\* leaves the member's array_size (and every other field) as it was; no
\* fragment that goes through the bracket scan changes array_size.
C26_ScannedSizeIsNotStored ==
    ret # None =>
        LET s == arg[1].s
        IN  /\ (IsBracketedNumber(s) /\ s \notin {"[2]", "[4]"}) =>
                  ~ret[1].panic /\ ret[1].val = arg[1].member
            /\ IsScanned(s) =>
                  ret[1].val.array_size = arg[1].member.array_size

C26_Witness ==
    /\ arg # None /\ arg[1].s = "[16]"
    /\ arg[1].member.array_size = Some("8")
    /\ ret # None /\ ~ret[1].panic
    /\ ret[1].val.array_size = Some("8")

\* C27: a non-empty text that directly follows a `comment` start-element
\* inside an open struct is stored in the open member's comment when a
\* member is open, and leaves the struct as it is; with no member open it
\* becomes the struct's comment and the struct's comment flag is cleared.
C27_CommentTextRouting ==
    [][(/\ IsTextStep /\ Len(e'.s) > 0
        /\ e.kind = "StartElement" /\ e.name = "comment"
        /\ current_struct # None) =>
            IF current_member # None
            THEN /\ pc' = "loop"
                 /\ current_member'[1].comment = Some(e'.s)
                 /\ current_struct' = current_struct
            ELSE /\ current_struct'[1].comment = e'.s
                 /\ ~parsing_struct_comment'
      ]_vars

\* C28: in member content of the form "[", `<enum>SYM</enum>`, "]" the lone
\* brackets, texts directly inside the member element, change no field of
\* the open member, and the text that directly follows the `enum`
\* start-element becomes the member's array_size.
C28_SymbolicArraySize ==
    [][/\ (/\ IsTextStep /\ e'.s \in {"[", "]"}
           /\ current_member # None /\ Top.name = "member") =>
              /\ pc' = "loop"
              /\ current_member' = current_member
       /\ (/\ IsTextStep /\ e.kind = "StartElement" /\ e.name = "enum"
           /\ current_member # None /\ Len(e'.s) > 0) =>
              current_member'[1].array_size = Some(e'.s)
      ]_vars

Terminated == pc \in {"exhausted", "error", "aborted"}

\* C29: on a finite event sequence the loop ends, in exactly one of three
\* ways: exhaustion or a source error, each followed by the report, or a
\* panic, without one; every step is taken while the loop runs, so no event
\* is processed after the loop has ended, and the event a step processes is
\* the next one of the source.
C29_TerminatesOnce ==
    /\ <>Terminated
    /\ [][/\ pc = "loop"
          /\ pc' \in {"loop", "exhausted", "error", "aborted"}
          /\ report' # None <=> pc' \in {"exhausted", "error"}
          /\ e'.kind = "Err" <=> pc' = "error"
          /\ elements' \in {elements, elements + 1}
          /\ elements' = elements + 1 <=> (e'.kind = "StartElement" /\ pc' = "loop")
         ]_vars

C29_Witness ==
    /\ pc = "exhausted" /\ report # None
    /\ e = OtherEvent /\ elements = MaxElements

\* Bit i (from 0) of the unsigned integer x is set.
BitSet(x, i) == (x \div Shl1(i)) % 2 = 1

\* The memory type indices of the device that the type filter allows and
\* whose property flags contain every requested property.
SuitableMemoryTypes(mem_props, type_filter, properties) ==
    {i \in 0..(mem_props.memory_type_count - 1) :
        /\ BitSet(type_filter, i)
        /\ \A b \in 0..1 : BitSet(properties, b) =>
                              BitSet(mem_props.memory_types[i + 1], b)}

\* C30: when the device's memory properties are obtained,
\* memory_type_index returns Ok(i) for the smallest suitable index i, and
\* panics, returning no error value, when there is none.
C30_SmallestSuitableIndexOrPanic ==
    (ret # None /\ arg[1].query # None) =>
        LET suitable == SuitableMemoryTypes(arg[1].query[1], arg[1].type_filter,
                                            arg[1].properties)
        IN  IF suitable # {}
            THEN /\ ret[1].kind = "Ok"
                 /\ ret[1].val \in suitable
                 /\ \A i \in suitable : ret[1].val <= i
            ELSE ret[1].kind = "panic"

C30_Witness ==
    /\ ret = Some([kind |-> "Ok", val |-> 1])
    /\ arg[1].query # None /\ arg[1].query[1].memory_type_count = 2
    /\ arg[1].type_filter = 3 /\ arg[1].properties = 3
    /\ arg[1].query[1].memory_types = <<1, 3>>

\* C31: a struct-category start-element with valid attributes that arrives
\* while a struct is under construction does not abort; the struct under
\* construction becomes the new, memberless struct of that element and the
\* output is left alone.  The output only ever receives the struct under
\* construction at that moment, so the replaced struct and its members
\* never reach it.
C31_NestedStructReplaces ==
    [][/\ (/\ IsStartStep /\ IsStructElement(e'.name, e'.attributes)
           /\ current_struct # None
           /\ ~Struct_new(e'.attributes).panic) =>
              /\ pc' = "loop"
              /\ current_struct' = Some(Struct_new(e'.attributes).val)
              /\ current_struct'[1].members = <<>>
              /\ structs' = structs
       /\ structs' # structs =>
              /\ current_struct # None
              /\ structs' = structs \o current_struct
      ]_vars

C31_Witness ==
    /\ pc = "exhausted"
    /\ Len(doc_structs) = 2 /\ doc_structs[1].members = 1
    /\ Len(structs) = 1 /\ structs[1].name = "VkB"
    /\ structs[1].members = <<>>

\* The accumulators, the armed flags and the output: every local of main
\* that the loop body writes, except the depth counter.
AccumulatorsFlagsOutput ==
    <<structs, current_struct, struct_start_depth, parsing_struct_comment,
      current_member, member_start_depth, parsing_member_type,
      parsing_member_name, parsing_member_array_size, parsing_member_comment>>

\* C32: while no struct is under construction, a start-element that is not
\* struct-category and an end-element change only the depth counter and a
\* text event changes nothing; none of them aborts.
C32_IdleEventsOnlyCountDepth ==
    [][current_struct = None =>
          /\ (IsStartStep /\ ~IsStructElement(e'.name, e'.attributes)) =>
                 /\ pc' = "loop" /\ depth' = depth + 1
                 /\ AccumulatorsFlagsOutput' = AccumulatorsFlagsOutput
          /\ IsEndStep =>
                 /\ pc' = "loop" /\ depth' = depth - 1
                 /\ AccumulatorsFlagsOutput' = AccumulatorsFlagsOutput
          /\ IsTextStep =>
                 /\ pc' = "loop" /\ main_vars' = main_vars
      ]_vars

\* C33: the output is append-only.  Every step keeps the Structs already in
\* `structs` as they are, at their positions, and adds at most one behind
\* them; a step that finalizes the member accumulator leaves `structs`
\* alone and appends the member to the struct under construction.
C33_OutputIsAppendOnly ==
    [][/\ Len(structs') \in {Len(structs), Len(structs) + 1}
       /\ SubSeq(structs', 1, Len(structs)) = structs
       /\ (current_member # None /\ current_member' = None) =>
              /\ structs' = structs
              /\ current_struct # None /\ current_struct' # None
              /\ current_struct'[1] =
                     [current_struct[1] EXCEPT
                         !.members = Append(@, current_member[1])]
      ]_vars

C33_Witness ==
    /\ Len(structs) = 2
    /\ structs[1].members # <<>>
    /\ current_struct = None /\ current_member = None

QualifierFlags == {"is_const", "is_struct", "is_ptr"}

\* The qualifier flag the claim assigns to a fragment: the first of const,
\* struct, * that the fragment begins with, if any.
QualifierOfPrefix(s) ==
    IF starts_with(s, "const") THEN {"is_const"}
    ELSE IF starts_with(s, "struct") THEN {"is_struct"}
    ELSE IF starts_with(s, "*") THEN {"is_ptr"}
    ELSE {}

\* C34: a call of parse_stray_text that returns has set at most one
\* qualifier flag, the one of the fragment's prefix in the order const,
\* struct, *; every other flag keeps the value it had.
C34_AtMostOneQualifierByPrefix ==
    (ret # None /\ ~ret[1].panic) =>
        LET s == arg[1].s
            before == arg[1].member
            after == ret[1].val
        IN  /\ Cardinality(QualifierOfPrefix(s)) <= 1
            /\ \A f \in QualifierFlags :
                   after[f] = (before[f] \/ f \in QualifierOfPrefix(s))

C34_Witness ==
    /\ ret # None /\ ~ret[1].panic
    /\ arg[1].s = "const struct " /\ arg[1].member = EmptyMember
    /\ ret[1].val.is_const /\ ~ret[1].val.is_struct /\ ~ret[1].val.is_ptr

C34_WitnessPointer ==
    /\ ret # None /\ ~ret[1].panic
    /\ arg[1].s = "* const*" /\ arg[1].member = EmptyMember
    /\ ret[1].val.is_ptr /\ ~ret[1].val.is_const /\ ~ret[1].val.is_struct

\* C35: convert_type accepts every token that begins with "Vk", whatever
\* its length, and returns it unchanged.
C35_NativePrefixAccepted ==
    (ret # None /\ starts_with(arg[1], "Vk")) =>
        ret[1] = [panic |-> FALSE, val |-> arg[1]]

\* The number of times call c has been made.
NumCalls(c) == Cardinality({i \in 1..Len(calls) : calls[i] = c})

\* Every handle of pool p has been dropped and the drop of the last one is
\* past the pool's Drop for Inner.
LastCloneDropped(p) ==
    /\ Built(p) /\ pool_strong[p] = 0
    /\ \A t \in Threads : dropping[t] # [at |-> "pool_inner_drop", pool |-> p]

\* C36: in every interleaving of clones and drops, vkDestroyDescriptorPool
\* has been called for a pool once when its last clone has been dropped and
\* not at all before; destroy_device is called at most once, and every pool
\* ever built from the device has been destroyed before that call.
C36_PoolDestroyedOnceBeforeDevice ==
    /\ \A p \in Pools :
          NumCalls(DestroyDescriptorPool(p)) = IF LastCloneDropped(p) THEN 1 ELSE 0
    /\ NumCalls(DestroyDevice) <= 1
    /\ \A k \in 1..Len(calls) :
          calls[k] = DestroyDevice =>
              \A p \in Pools :
                  Built(p) =>
                      /\ \E i \in 1..(k - 1) : calls[i] = CreateDescriptorPool(p)
                      /\ \E j \in 1..(k - 1) : calls[j] = DestroyDescriptorPool(p)

\* Both pools were built, every handle has been dropped, and the device was
\* destroyed last.
C36_Witness ==
    /\ Built(1) /\ Built(2)
    /\ Len(calls) >= 5 /\ calls[Len(calls)] = DestroyDevice
    /\ device_strong = 0

\* The threads have dropped every Device value while two of them are still
\* tearing pools down: the Inners of the pools hold the last Devices.
C36_WitnessDeviceHeldByPool ==
    /\ device_handles = 0 /\ device_strong = 2
    /\ \E t, u \in Threads :
          /\ dropping[t].at = "pool_inner_drop"
          /\ dropping[u].at = "pool_field_drop"

====
